---- MODULE Spec2Model ----
(***************************************************************************)
(* MetroBot: the per-guild playback engine of src/player.py driven by the  *)
(* command handlers of src/bot.py, for one guild.                          *)
(*                                                                         *)
(* Every step is one run of a coroutine between two suspension points of   *)
(* the asyncio loop (an await that really yields: the resolver and the     *)
(* downloader in the executor, Queue.get on an empty queue, Event.wait,    *)
(* asyncio.sleep, VoiceClient.disconnect), or one event of the audio        *)
(* thread (the stream ends, the `after` callback is posted).               *)
(* channel.connect() is one step with what follows it in bot.play.         *)
(* Time is abstracted: a sleeping idle task may wake at any moment.        *)
(***************************************************************************)
EXTENDS Naturals, Sequences, FiniteSets

\* ---------------------------------------------------------------- bounds
MaxTracks == 2      \* tracks ever resolved (Track objects ever built)
MaxPlayers == 1     \* MusicPlayer objects ever constructed
MaxVC == 2          \* VoiceClient objects ever connected
MaxInflight == 2    \* command handlers suspended at one time (play and leave)
MaxQueued == 12     \* tracks pushed in the states the queue listing is computed on

Tracks == 1..MaxTracks
Players == 1..MaxPlayers
VCs == 1..MaxVC

VARIABLES
    players,      \* MusicManager.players[guild_id]: 0 (no entry) or the Player
    nPlayers,     \* MusicPlayer objects constructed so far
    ctx_voice_client, \* ctx.voice_client of the guild: 0 (None) or the VoiceClient
    nVC,          \* VoiceClient objects created so far
    vcState,      \* per VoiceClient: none / connected / disconnecting / disconnected
    sink,         \* per VoiceClient: its audio player [st: idle/playing/paused, t: track]
    cb,           \* tracks whose `after` callback is outstanding (stream ended, event not yet set)
    sinkErr,      \* tracks whose stream the audio thread ended on an error (the err passed to
                  \* `after`), until the driver has moved on from the track
    voice_client, \* MusicPlayer.voice_client
    queue,        \* MusicPlayer.queue (asyncio.Queue), head first
    current,      \* MusicPlayer.current: 0 (None) or the track
    play_next_event, \* MusicPlayer.play_next_event
    player_task,  \* MusicPlayer._task: where player_loop is suspended (get / download / wait),
                  \* or how it ended (cancelled / failed: an exception left the loop)
    auto_disconnect_task, \* MusicPlayer.auto_disconnect_task: none (None), where _auto_disconnect is
                  \* suspended (sleep / settle / disc), or done (returned or cancelled)
    orphans,      \* per Player: where the idle tasks that are not done and that
                  \* auto_disconnect_task no longer refers to are suspended
    nTracks,      \* Track objects built so far (tracks are numbered in push order)
    tplayer,      \* the Player a track was pushed to (0: not built yet)
    resolving,    \* per Player: queue_entry calls suspended in the resolver
    leaving,      \* per Player: MusicManager.disconnect calls suspended in voice_client.disconnect()
    playLog,      \* per Player: the tracks voice_client.play accepted, in order
    fired,        \* per track: times its after_playing callback set the event
    dropped,      \* tracks discarded by stop()
    torn,         \* per Player: how MusicManager.disconnect on it ended: no / returned / KeyError
    stopMark      \* per Player, stop() with no push since: 0 none; 1 + t: current was t and the
                  \* driver has not advanced yet; 1: current was None or the driver has advanced

vars == <<players, nPlayers, ctx_voice_client, nVC, vcState, sink, cb, sinkErr, voice_client, queue, current,
          play_next_event, player_task, auto_disconnect_task, orphans, nTracks, tplayer, resolving,
          leaving, playLog, fired, dropped, torn, stopMark>>

\* groups used in UNCHANGED
regVars == <<players, nPlayers>>
vcVars == <<ctx_voice_client, nVC, vcState>>
hVars == <<resolving, leaving>>
idleVars == <<auto_disconnect_task, orphans>>
histVars == <<playLog, fired, dropped, torn, stopMark>>

NoSink == [st |-> "idle", t |-> 0]

\* ------------------------------------------------------------ voice client
\* VoiceClient.is_connected / is_playing / is_paused as the handlers read them.
IsConnected(v) == vcState[v] = "connected"
IsPlaying(v) == sink[v].st = "playing"
IsPaused(v) == sink[v].st = "paused"

\* VoiceClient.stop(): drop the audio player; its thread ends and calls `after`.
SinkAfterStop(v) == [sink EXCEPT ![v] = NoSink]
CbAfterStop(v) == IF sink[v].st = "idle" THEN cb ELSE cb \cup {sink[v].t}

\* Sum of a per-Player counter.
RECURSIVE SumTo(_, _)
SumTo(f, n) == IF n = 0 THEN 0 ELSE f[n] + SumTo(f, n - 1)

\* Times voice_client.play accepted track t.
Started(t) ==
    IF tplayer[t] = 0 THEN 0
    ELSE Cardinality({i \in 1..Len(playLog[tplayer[t]]) : playLog[tplayer[t]][i] = t})

InFlightPlays == SumTo(resolving, MaxPlayers)
InFlightLeaves == SumTo(leaving, MaxPlayers)
InFlight == InFlightPlays + InFlightLeaves

Init ==
    /\ players = 0
    /\ nPlayers = 0
    /\ ctx_voice_client = 0
    /\ nVC = 0
    /\ vcState = [v \in VCs |-> "none"]
    /\ sink = [v \in VCs |-> NoSink]
    /\ cb = {}
    /\ sinkErr = {}
    /\ voice_client = [p \in Players |-> 0]
    /\ queue = [p \in Players |-> <<>>]
    /\ current = [p \in Players |-> 0]
    /\ play_next_event = [p \in Players |-> FALSE]
    /\ player_task = [p \in Players |-> "none"]
    /\ auto_disconnect_task = [p \in Players |-> "none"]
    /\ orphans = [p \in Players |-> {}]
    /\ nTracks = 0
    /\ tplayer = [t \in Tracks |-> 0]
    /\ resolving = [p \in Players |-> 0]
    /\ leaving = [p \in Players |-> 0]
    /\ playLog = [p \in Players |-> <<>>]
    /\ fired = [t \in Tracks |-> 0]
    /\ dropped = {}
    /\ torn = [p \in Players |-> "no"]
    /\ stopMark = [p \in Players |-> 0]

\* ------------------------------------------------------------ MusicPlayer
\* Mutants of the queue: the driver receives the newest item; the driver
\* reads the head without removing it.
QueueGetNewest(q) == q[Len(q)]
QueueRestPeek(q) == q

\* asyncio.Queue.get: the item the driver receives, and what stays queued.
QueueGet(q) == Head(q)
QueueRest(q) == Tail(q)

\* MusicPlayer.start_auto_disconnect: cancel the pending idle task, create a new one.
StartAutoDisconnect(p) == [auto_disconnect_task EXCEPT ![p] = "sleep"]

\* Mutant of the re-arm: the previous idle task is replaced without being cancelled.
IdleNotCancelled(p) ==
    [orphans EXCEPT ![p] = @ \cup (IF auto_disconnect_task[p] \in {"sleep", "settle", "disc"}
                                   THEN {auto_disconnect_task[p]} ELSE {})]

\* Task.cancel() on the idle task auto_disconnect_task refers to, before the
\* reference is replaced: the task ends where it is suspended, so the re-arm
\* leaves no other idle task behind than those there were.
IdleCancelled(p) == orphans

\* Mutant of the drain loop: it leaves the last pending track.
StopDrainButLast(q) == IF q = <<>> THEN q ELSE <<q[Len(q)]>>

\* MusicPlayer.stop, the drain loop: what is left in the queue.
StopDrain(q) == <<>>

\* MusicPlayer.stop / skip: whether the sink is told to stop.
StopStopsSink(v) == IsPlaying(v) \/ IsPaused(v)
SkipStopsSink(v) == IsPlaying(v)

Range(q) == {q[i] : i \in 1..Len(q)}

\* Mutant of get_player: the existing Player is re-bound to the voice client passed in.
GetPlayerRebind(v) ==
    IF players # 0
    THEN /\ voice_client' = [voice_client EXCEPT ![players] = v]
         /\ UNCHANGED <<players, nPlayers, player_task>>
    ELSE /\ nPlayers < MaxPlayers
         /\ players' = nPlayers + 1
         /\ nPlayers' = nPlayers + 1
         /\ voice_client' = [voice_client EXCEPT ![nPlayers + 1] = v]
         /\ player_task' = [player_task EXCEPT ![nPlayers + 1] = "get"]

\* MusicManager.get_player: the existing Player, or a new one bound to v whose
\* driver task runs to its first Queue.get on the empty queue.
GetPlayer(v) ==
    IF players # 0
    THEN UNCHANGED <<players, nPlayers, voice_client, player_task>>
    ELSE /\ nPlayers < MaxPlayers
         /\ players' = nPlayers + 1
         /\ nPlayers' = nPlayers + 1
         /\ voice_client' = [voice_client EXCEPT ![nPlayers + 1] = v]
         /\ player_task' = [player_task EXCEPT ![nPlayers + 1] = "get"]

\* ------------------------------------------------------------ play command
PlayBudget == nTracks + InFlightPlays < MaxTracks /\ InFlight < MaxInflight

\* bot.play: no voice client and the author is in no voice channel.
PlayNotInVoice ==
    /\ ctx_voice_client = 0
    /\ UNCHANGED <<regVars, vcVars, sink, cb, sinkErr, voice_client, queue, current, play_next_event, player_task, idleVars,
                   nTracks, tplayer, hVars, histVars>>

\* bot.play: no voice client, the author is in a channel: channel.connect() gives
\* a new connected VoiceClient, then get_player, then queue_entry up to the resolver.
PlayConnect ==
    /\ ctx_voice_client = 0
    /\ PlayBudget
    /\ nVC < MaxVC
    /\ nVC' = nVC + 1
    /\ ctx_voice_client' = nVC + 1
    /\ vcState' = [vcState EXCEPT ![nVC + 1] = "connected"]
    /\ GetPlayer(nVC + 1)
    /\ resolving' = [resolving EXCEPT ![players'] = @ + 1]
    /\ UNCHANGED <<sink, cb, sinkErr, queue, current, play_next_event, idleVars,
                   nTracks, tplayer, leaving, histVars>>

\* bot.play with a voice client already there: get_player, queue_entry up to the resolver.
PlayJoin ==
    /\ ctx_voice_client # 0
    /\ PlayBudget
    /\ GetPlayer(ctx_voice_client)
    /\ resolving' = [resolving EXCEPT ![players'] = @ + 1]
    /\ UNCHANGED <<vcVars, sink, cb, sinkErr, queue, current, play_next_event, idleVars,
                   nTracks, tplayer, leaving, histVars>>

\* Mutant of the failure path: the idle timer is re-armed all the same.
FailIdleRearm(p) == [auto_disconnect_task EXCEPT ![p] = "sleep"]

\* queue_entry after a failed resolution: what becomes of the idle task.
FailIdle(p) == auto_disconnect_task

\* MusicPlayer.queue_entry resumed with the resolver's result: put, re-arm, return.
QueueEntryOK(p) ==
    /\ resolving[p] > 0
    /\ nTracks < MaxTracks
    /\ nTracks' = nTracks + 1
    /\ tplayer' = [tplayer EXCEPT ![nTracks + 1] = p]
    /\ queue' = [queue EXCEPT ![p] = Append(@, nTracks + 1)]
    /\ auto_disconnect_task' = StartAutoDisconnect(p)
    /\ orphans' = IdleCancelled(p)
    /\ resolving' = [resolving EXCEPT ![p] = @ - 1]
    /\ stopMark' = [stopMark EXCEPT ![p] = 0]
    /\ UNCHANGED <<regVars, vcVars, sink, cb, sinkErr, voice_client, current, play_next_event, player_task,
                   leaving, playLog, fired, dropped, torn>>

\* MusicPlayer.queue_entry resumed with the resolver's exception: it propagates
\* out of queue_entry and out of bot.play.
QueueEntryFail(p) ==
    /\ resolving[p] > 0
    /\ resolving' = [resolving EXCEPT ![p] = @ - 1]
    /\ auto_disconnect_task' = FailIdle(p)
    /\ UNCHANGED orphans
    /\ UNCHANGED <<regVars, vcVars, sink, cb, sinkErr, voice_client, queue, current, play_next_event, player_task,
                   nTracks, tplayer, leaving, histVars>>

\* ------------------------------------------------------------ driver
\* player_loop woken in Queue.get: take the head, start the download.
DriverTake(p) ==
    /\ player_task[p] = "get"
    /\ queue[p] # <<>>
    /\ current' = [current EXCEPT ![p] = QueueGet(queue[p])]
    /\ queue' = [queue EXCEPT ![p] = QueueRest(@)]
    /\ player_task' = [player_task EXCEPT ![p] = "download"]
    /\ UNCHANGED <<regVars, vcVars, sink, cb, sinkErr, voice_client, play_next_event, idleVars, nTracks, tplayer,
                   hVars, histVars>>

\* player_loop resumed from download_track: voice_client.play, then Event.wait.
\* play raises ClientException when the client is not connected or is playing.
DriverPlay(p) ==
    /\ player_task[p] = "download"
    /\ LET v == voice_client[p]
           t == current[p]
       IN IF IsConnected(v) /\ ~IsPlaying(v)
          THEN /\ sink' = [sink EXCEPT ![v] = [st |-> "playing", t |-> t]]
               /\ playLog' = [playLog EXCEPT ![p] = Append(@, t)]
               /\ player_task' = [player_task EXCEPT ![p] = "wait"]
          ELSE /\ player_task' = [player_task EXCEPT ![p] = "failed"]
               /\ UNCHANGED <<sink, playLog>>
    /\ UNCHANGED <<regVars, vcVars, cb, sinkErr, voice_client, queue, current, play_next_event, idleVars, nTracks,
                   tplayer, hVars, fired, dropped, torn, stopMark>>

\* player_loop resumed from download_track with its exception: the task ends.
DriverDownloadFail(p) ==
    /\ player_task[p] = "download"
    /\ player_task' = [player_task EXCEPT ![p] = "failed"]
    /\ UNCHANGED <<regVars, vcVars, sink, cb, sinkErr, voice_client, queue, current, play_next_event, idleVars,
                   nTracks, tplayer, hVars, histVars>>

\* Mutant of the driver: it goes on without waiting for play_next_event.
DriverAdvanceEarly(p) ==
    /\ player_task[p] = "wait"
    /\ auto_disconnect_task' = StartAutoDisconnect(p)
    /\ orphans' = IdleCancelled(p)
    /\ play_next_event' = [play_next_event EXCEPT ![p] = FALSE]
    /\ stopMark' = [stopMark EXCEPT ![p] = IF @ = 0 THEN 0 ELSE 1]
    /\ IF queue[p] # <<>>
       THEN /\ current' = [current EXCEPT ![p] = QueueGet(queue[p])]
            /\ queue' = [queue EXCEPT ![p] = QueueRest(@)]
            /\ player_task' = [player_task EXCEPT ![p] = "download"]
       ELSE /\ current' = [current EXCEPT ![p] = 0]
            /\ player_task' = [player_task EXCEPT ![p] = "get"]
            /\ UNCHANGED queue
    /\ sinkErr' = sinkErr \ {current[p]}
    /\ UNCHANGED <<regVars, vcVars, sink, cb, voice_client, nTracks, tplayer, hVars,
                   playLog, fired, dropped, torn>>

\* player_loop released from Event.wait: clear current, re-arm, next iteration
\* (clear the event, take the next track if there is one, else block in get).
DriverAdvance(p) ==
    /\ player_task[p] = "wait"
    /\ play_next_event[p]
    /\ auto_disconnect_task' = StartAutoDisconnect(p)
    /\ orphans' = IdleCancelled(p)
    /\ play_next_event' = [play_next_event EXCEPT ![p] = FALSE]
    /\ stopMark' = [stopMark EXCEPT ![p] = IF @ = 0 THEN 0 ELSE 1]
    /\ IF queue[p] # <<>>
       THEN /\ current' = [current EXCEPT ![p] = QueueGet(queue[p])]
            /\ queue' = [queue EXCEPT ![p] = QueueRest(@)]
            /\ player_task' = [player_task EXCEPT ![p] = "download"]
       ELSE /\ current' = [current EXCEPT ![p] = 0]
            /\ player_task' = [player_task EXCEPT ![p] = "get"]
            /\ UNCHANGED queue
    /\ sinkErr' = sinkErr \ {current[p]}
    /\ UNCHANGED <<regVars, vcVars, sink, cb, voice_client, nTracks, tplayer, hVars,
                   playLog, fired, dropped, torn>>

\* ------------------------------------------------------------ audio thread
\* The stream of the playing source ends: the thread will call `after`.
SinkFinish(v) ==
    /\ IsPlaying(v)
    /\ sink' = SinkAfterStop(v)
    /\ cb' = CbAfterStop(v)
    /\ UNCHANGED <<regVars, vcVars, voice_client, queue, current, play_next_event, player_task, idleVars, nTracks,
                   tplayer, hVars, histVars, sinkErr>>

\* The audio thread fails while reading the source: it ends and will call
\* `after` with the error.
SinkFail(v) ==
    /\ IsPlaying(v)
    /\ sink' = SinkAfterStop(v)
    /\ cb' = CbAfterStop(v)
    /\ sinkErr' = sinkErr \cup {sink[v].t}
    /\ UNCHANGED <<regVars, vcVars, voice_client, queue, current, play_next_event, player_task, idleVars, nTracks,
                   tplayer, hVars, histVars>>

\* Mutant of after_playing: with an error it returns before posting the set.
SignalUnlessError(t) ==
    IF t \in sinkErr THEN play_next_event
    ELSE [play_next_event EXCEPT ![tplayer[t]] = TRUE]

\* after_playing(err): the error is only printed; play_next_event.set is posted
\* to the loop of the Player the callback was made for, with or without error.
SignalAfter(t) == [play_next_event EXCEPT ![tplayer[t]] = TRUE]

\* after_playing runs and the loop runs the posted play_next_event.set.
AfterPlaying(t) ==
    /\ t \in cb
    /\ cb' = cb \ {t}
    /\ fired' = [fired EXCEPT ![t] = @ + 1]
    /\ play_next_event' = SignalAfter(t)
    /\ UNCHANGED <<regVars, vcVars, sink, voice_client, queue, current, player_task, idleVars, nTracks,
                   tplayer, hVars, playLog, dropped, torn, stopMark, sinkErr>>

\* ------------------------------------------------------------ commands
\* bot.skip
Skip ==
    /\ IF players = 0
       THEN UNCHANGED <<sink, cb>>
       ELSE LET p == players
                v == voice_client[p]
            IN /\ IF SkipStopsSink(v)
                  THEN sink' = SinkAfterStop(v) /\ cb' = CbAfterStop(v)
                  ELSE UNCHANGED <<sink, cb>>
    /\ UNCHANGED <<regVars, vcVars, voice_client, queue, current, play_next_event, player_task, idleVars, nTracks,
                   tplayer, hVars, playLog, fired, dropped, torn, stopMark, sinkErr>>

\* Mutant of pause: it also clears the Player's current track.
PauseClearsCurrent ==
    /\ ctx_voice_client # 0 /\ IsPlaying(ctx_voice_client)
    /\ sink' = [sink EXCEPT ![ctx_voice_client].st = "paused"]
    /\ current' = [p \in Players |-> IF voice_client[p] = ctx_voice_client THEN 0 ELSE current[p]]
    /\ UNCHANGED <<regVars, vcVars, cb, sinkErr, voice_client, queue, play_next_event, player_task, idleVars,
                   nTracks, tplayer, hVars, histVars>>

\* bot.pause
Pause ==
    /\ IF ctx_voice_client = 0 \/ ~IsPlaying(ctx_voice_client)
       THEN UNCHANGED sink
       ELSE sink' = [sink EXCEPT ![ctx_voice_client].st = "paused"]
    /\ UNCHANGED <<regVars, vcVars, cb, sinkErr, voice_client, queue, current, play_next_event, player_task, idleVars, nTracks,
                   tplayer, hVars, histVars>>

\* bot.resume
Resume ==
    /\ IF ctx_voice_client = 0 \/ ~IsPaused(ctx_voice_client)
       THEN UNCHANGED sink
       ELSE sink' = [sink EXCEPT ![ctx_voice_client].st = "playing"]
    /\ UNCHANGED <<regVars, vcVars, cb, sinkErr, voice_client, queue, current, play_next_event, player_task, idleVars, nTracks,
                   tplayer, hVars, histVars>>

\* bot.stop -> MusicPlayer.stop
Stop ==
    /\ IF players = 0
       THEN UNCHANGED <<sink, cb, queue, idleVars, dropped, stopMark>>
       ELSE LET p == players
                v == voice_client[p]
            IN /\ queue' = [queue EXCEPT ![p] = StopDrain(@)]
               /\ dropped' = dropped \cup (Range(queue[p]) \ Range(StopDrain(queue[p])))
               /\ IF StopStopsSink(v)
                  THEN sink' = SinkAfterStop(v) /\ cb' = CbAfterStop(v)
                  ELSE UNCHANGED <<sink, cb>>
               /\ auto_disconnect_task' = StartAutoDisconnect(p)
               /\ orphans' = IdleCancelled(p)
               /\ stopMark' = [stopMark EXCEPT ![p] = 1 + current[p]]
    /\ UNCHANGED <<regVars, vcVars, voice_client, current, play_next_event, player_task, nTracks, tplayer,
                   hVars, playLog, fired, torn, sinkErr>>

\* bot.show_queue: the lines of the reply, as <<kind, track>> pairs.
QueueShown == 10
\* Mutant of the listing: every queued track is listed.
UpcomingAll(q) == q
Upcoming(q) == SubSeq(q, 1, IF Len(q) < QueueShown THEN Len(q) ELSE QueueShown)
QueueLines(p) ==
    (IF current[p] # 0 THEN << <<"now", current[p]>> >> ELSE <<>>)
    \o [i \in 1..Len(Upcoming(queue[p])) |-> <<i, Upcoming(queue[p])[i]>>]

ShowQueue ==
    UNCHANGED <<regVars, vcVars, sink, cb, sinkErr, voice_client, queue, current, play_next_event, player_task, idleVars,
                nTracks, tplayer, hVars, histVars>>

\* ------------------------------------------------------------ leave
\* VoiceClient.disconnect() called on v: stop the sink, start leaving the channel.
\* A client that is not connected is left as it is.
DisconnectBegin(v) ==
    IF IsConnected(v)
    THEN /\ vcState' = [vcState EXCEPT ![v] = "disconnecting"]
         /\ sink' = SinkAfterStop(v)
         /\ cb' = CbAfterStop(v)
    ELSE UNCHANGED <<vcState, sink, cb>>

\* The transport has left the channel: the client is cleaned up, the guild has
\* no voice client any more.
VoiceDisconnected(v) ==
    /\ vcState[v] = "disconnecting"
    /\ vcState' = [vcState EXCEPT ![v] = "disconnected"]
    /\ ctx_voice_client' = IF ctx_voice_client = v THEN 0 ELSE ctx_voice_client
    /\ UNCHANGED <<regVars, nVC, sink, cb, sinkErr, voice_client, queue, current, play_next_event, player_task, idleVars,
                   nTracks, tplayer, hVars, histVars>>

\* Task.cancel() on the driver and on the idle task (a finished task stays as it is).
CancelDriver(p) ==
    [player_task EXCEPT ![p] = IF @ \in {"get", "download", "wait"} THEN "cancelled" ELSE @]
CancelIdle(p) ==
    [auto_disconnect_task EXCEPT ![p] = IF @ \in {"sleep", "settle", "disc"} THEN "done" ELSE @]

\* MusicManager.disconnect after the await: cancel both tasks, del players[guild_id].
\* The del raises KeyError when the entry is gone; it removes whatever entry is there.
Teardown(p) ==
    /\ player_task' = CancelDriver(p)
    /\ auto_disconnect_task' = CancelIdle(p)
    /\ UNCHANGED orphans
    /\ IF players = 0
       THEN /\ torn' = [torn EXCEPT ![p] = "KeyError"]
            /\ UNCHANGED players
       ELSE /\ torn' = [torn EXCEPT ![p] = "returned"]
            /\ players' = 0

\* Mutant of leave: without a voice client it still calls MusicManager.disconnect.
LeaveUnguarded ==
    /\ ctx_voice_client = 0
    /\ IF players = 0
       THEN UNCHANGED <<players, player_task, idleVars, torn>>
       ELSE Teardown(players)
    /\ UNCHANGED <<nPlayers, vcVars, sink, cb, sinkErr, voice_client, queue, current, play_next_event, nTracks,
                   tplayer, hVars, playLog, fired, dropped, stopMark>>

\* bot.leave: the guild has no voice client.
LeaveNotConnected ==
    /\ ctx_voice_client = 0
    /\ UNCHANGED <<regVars, vcVars, sink, cb, sinkErr, voice_client, queue, current, play_next_event, player_task, idleVars,
                   nTracks, tplayer, hVars, histVars>>

\* bot.leave -> MusicManager.disconnect with no Player registered.
LeaveNoPlayer ==
    /\ ctx_voice_client # 0
    /\ players = 0
    /\ UNCHANGED <<regVars, vcVars, sink, cb, sinkErr, voice_client, queue, current, play_next_event, player_task, idleVars,
                   nTracks, tplayer, hVars, histVars>>

\* bot.leave -> MusicManager.disconnect up to `await player.voice_client.disconnect()`.
\* The await yields while the client is leaving; on a client that has left
\* it returns at once and the teardown follows in the same step.
LeaveBegin ==
    /\ ctx_voice_client # 0
    /\ players # 0
    /\ LET p == players
           v == voice_client[p]
       IN IF vcState[v] \in {"connected", "disconnecting"}
          THEN /\ InFlight < MaxInflight
               /\ DisconnectBegin(v)
               /\ leaving' = [leaving EXCEPT ![p] = @ + 1]
               /\ UNCHANGED <<players, player_task, idleVars, torn>>
          ELSE /\ Teardown(p)
               /\ UNCHANGED <<vcState, sink, cb, leaving>>
    /\ UNCHANGED <<nPlayers, ctx_voice_client, nVC, voice_client, queue, current, play_next_event, nTracks, tplayer,
                   resolving, playLog, fired, dropped, stopMark, sinkErr>>

\* MusicManager.disconnect resumed from the await.
LeaveFinish(p) ==
    /\ leaving[p] > 0
    /\ vcState[voice_client[p]] = "disconnected"
    /\ leaving' = [leaving EXCEPT ![p] = @ - 1]
    /\ Teardown(p)
    /\ UNCHANGED <<nPlayers, vcVars, sink, cb, sinkErr, voice_client, queue, current, play_next_event, nTracks,
                   tplayer, resolving, playLog, fired, dropped, stopMark>>

\* ------------------------------------------------------------ idle task
IdleTasks == {"latest", "orphan"}

\* The idle tasks of Player p that can run: the one auto_disconnect_task refers
\* to ("latest") and those it no longer refers to ("orphan").
IdleAt(p, who, s) ==
    IF who = "latest" THEN auto_disconnect_task[p] = s ELSE s \in orphans[p]

\* The task of p that was suspended at s is now at `to`.
IdleMove(p, who, s, to) ==
    IF who = "latest"
    THEN /\ auto_disconnect_task' = [auto_disconnect_task EXCEPT ![p] = to]
         /\ UNCHANGED orphans
    ELSE /\ orphans' = [orphans EXCEPT ![p] = (@ \ {s}) \cup (IF to = "done" THEN {} ELSE {to})]
         /\ UNCHANGED auto_disconnect_task

\* _auto_disconnect woken from sleep(timeout); alone: len(channel.members) == 1.
IdleFire(p, who, alone) ==
    /\ IdleAt(p, who, "sleep")
    /\ LET v == voice_client[p]
       IN IF ~IsConnected(v)
          THEN /\ IdleMove(p, who, "sleep", "done")
               /\ UNCHANGED <<vcState, sink, cb>>
          ELSE IF alone
          THEN /\ IdleMove(p, who, "sleep", "disc")
               /\ DisconnectBegin(v)
          ELSE /\ IdleMove(p, who, "sleep", "settle")
               /\ UNCHANGED <<vcState, sink, cb>>
    /\ UNCHANGED <<regVars, ctx_voice_client, nVC, voice_client, queue, current, play_next_event, player_task,
                   nTracks, tplayer, hVars, histVars, sinkErr>>

\* Mutant of the guard: current is not looked at.
IdleGuardNoCurrent(p) ==
    /\ ~IsPlaying(voice_client[p])
    /\ queue[p] = <<>>

\* _auto_disconnect, the guard after the settling sleep.
IdleGuard(p) ==
    /\ ~IsPlaying(voice_client[p])
    /\ queue[p] = <<>>
    /\ current[p] = 0

\* _auto_disconnect woken from sleep(1).
IdleSettle(p, who) ==
    /\ IdleAt(p, who, "settle")
    /\ IF IdleGuard(p)
       THEN /\ IdleMove(p, who, "settle", "disc")
            /\ DisconnectBegin(voice_client[p])
       ELSE /\ IdleMove(p, who, "settle", "done")
            /\ UNCHANGED <<vcState, sink, cb>>
    /\ UNCHANGED <<regVars, ctx_voice_client, nVC, voice_client, queue, current, play_next_event, player_task,
                   nTracks, tplayer, hVars, histVars, sinkErr>>

\* _auto_disconnect resumed from `await voice_client.disconnect()`: it returns.
IdleLeft(p, who) ==
    /\ IdleAt(p, who, "disc")
    /\ vcState[voice_client[p]] = "disconnected"
    /\ IdleMove(p, who, "disc", "done")
    /\ UNCHANGED <<regVars, vcVars, sink, cb, sinkErr, voice_client, queue, current, play_next_event, player_task,
                   nTracks, tplayer, hVars, histVars>>

\* ------------------------------------------------------------ specification
Command ==
    \/ PlayNotInVoice
    \/ PlayConnect
    \/ PlayJoin
    \/ Skip
    \/ Pause
    \/ Resume
    \/ Stop
    \/ ShowQueue
    \/ LeaveNotConnected
    \/ LeaveNoPlayer
    \/ LeaveBegin

Progress ==
    \/ \E p \in Players : QueueEntryOK(p)
    \/ \E p \in Players : QueueEntryFail(p)
    \/ \E p \in Players : DriverTake(p)
    \/ \E p \in Players : DriverPlay(p)
    \/ \E p \in Players : DriverDownloadFail(p)
    \/ \E p \in Players : DriverAdvance(p)
    \/ \E v \in VCs : SinkFinish(v)
    \/ \E v \in VCs : SinkFail(v)
    \/ \E t \in Tracks : AfterPlaying(t)
    \/ \E v \in VCs : VoiceDisconnected(v)
    \/ \E p \in Players : LeaveFinish(p)
    \/ \E p \in Players, who \in IdleTasks, alone \in BOOLEAN : IdleFire(p, who, alone)
    \/ \E p \in Players, who \in IdleTasks : IdleSettle(p, who)
    \/ \E p \in Players, who \in IdleTasks : IdleLeft(p, who)

Next == Command \/ Progress

Spec == Init /\ [][Next]_vars

\* ------------------------------------------------- the queue listing alone
\* States of one Player after b pushes, for the queue command to be run on:
\* tracks 1 .. a-1 have left the queue in order, a .. b are queued; either the
\* driver is blocked in Queue.get with all of 1 .. a-1 played (c = 0), or
\* track c = a-1 is on the sink and the driver waits for it.
InitQueue ==
    \E a \in 1..MaxQueued + 1, b \in 0..MaxQueued, c \in 0..MaxQueued :
        /\ b >= a - 1
        /\ c \in {0, a - 1}
        /\ players = 1
        /\ nPlayers = 1
        /\ ctx_voice_client = 1
        /\ nVC = 1
        /\ vcState = [v \in VCs |-> IF v = 1 THEN "connected" ELSE "none"]
        /\ sink = [v \in VCs |-> IF v = 1 /\ c # 0 THEN [st |-> "playing", t |-> c] ELSE NoSink]
        /\ cb = {}
        /\ sinkErr = {}
        /\ voice_client = [p \in Players |-> IF p = 1 THEN 1 ELSE 0]
        /\ queue = [p \in Players |-> IF p = 1 THEN [i \in 1..(b + 1 - a) |-> a + i - 1] ELSE <<>>]
        /\ current = [p \in Players |-> IF p = 1 THEN c ELSE 0]
        /\ play_next_event = [p \in Players |-> FALSE]
        /\ player_task = [p \in Players |-> IF p # 1 THEN "none" ELSE IF c # 0 THEN "wait" ELSE "get"]
        /\ auto_disconnect_task = [p \in Players |-> IF p = 1 /\ b > 0 THEN "sleep" ELSE "none"]
        /\ orphans = [p \in Players |-> {}]
        /\ nTracks = b
        /\ tplayer = [t \in 1..MaxQueued |-> IF t <= b THEN 1 ELSE 0]
        /\ resolving = [p \in Players |-> 0]
        /\ leaving = [p \in Players |-> 0]
        /\ playLog = [p \in Players |-> IF p = 1 THEN [i \in 1..(a - 1) |-> i] ELSE <<>>]
        /\ fired = [t \in 1..MaxQueued |-> IF t < a /\ t # c THEN 1 ELSE 0]
        /\ dropped = {}
        /\ torn = [p \in Players |-> "no"]
        /\ stopMark = [p \in Players |-> 0]

NextQueue == ShowQueue

QueueSpec == InitQueue /\ [][NextQueue]_vars


\* ------------------------------------------------------------ properties
Alive == {"get", "download", "wait"}
Pending == {"sleep", "settle", "disc"}

\* No sink holds a track of Player p.
NoStream(p) == \A v \in VCs : sink[v].st # "idle" => tplayer[sink[v].t] # p

\* Player p is unused: nothing queued, nothing current, its sink idle.
Unused(p) == queue[p] = <<>> /\ current[p] = 0 /\ sink[voice_client[p]].st = "idle"

\* C1: the tracks a Player hands to the sink are in push order (tracks are
\* numbered in the order queue_entry puts them): a track pushed earlier never
\* starts after one pushed later.
PlayOrderIsPushOrder ==
    \A p \in Players : \A i, j \in 1..Len(playLog[p]) :
        i < j => playLog[p][i] < playLog[p][j]

\* C1 witness: a Player has started two tracks.
TwoTracksStarted == \E p \in Players : Len(playLog[p]) >= 2

\* C2: with a stop() in effect on a Player (no push since): the queue is empty;
\* the track that was current at the stop stays current until the driver
\* advances; once it has (or current was None), current is None, no track
\* of the Player is on a sink, and the driver is blocked in Queue.get for as
\* long as the Player has not been torn down by disconnect.
StopSettles ==
    \A p \in Players : stopMark[p] # 0 =>
        /\ queue[p] = <<>>
        /\ stopMark[p] > 1 => current[p] = stopMark[p] - 1
        /\ stopMark[p] = 1 =>
              /\ current[p] = 0
              /\ NoStream(p)
              /\ player_task[p] = "get" \/ torn[p] # "no"

\* C2 witness: stop() hit a Player with a current track whose sink it stopped,
\* the callback has fired and the driver is about to handle it.
StopCallbackFired ==
    \E p \in Players : /\ stopMark[p] > 1
                       /\ fired[stopMark[p] - 1] = 1
                       /\ play_next_event[p]
                       /\ player_task[p] = "wait"

\* C3 (as claimed): once MusicManager.disconnect has ended for a Player, its
\* driver task and its idle task are not alive.
NoTaskAfterDisconnect ==
    \A p \in Players : torn[p] # "no" => player_task[p] \notin Alive /\ auto_disconnect_task[p] \notin Pending

\* C4 (as claimed): no call of MusicManager.disconnect ends in an error.
DisconnectNeverRaises == \A p \in Players : torn[p] # "KeyError"

\* C5 (as claimed): when the idle task of an unused Player has disconnected
\* the voice client (its await of voice_client.disconnect() is over) and no
\* command is in progress, the Player is out of the registry and its driver
\* has stopped.
IdleDisconnectDestroysPlayer ==
    \A p \in Players :
        (auto_disconnect_task[p] = "disc" /\ vcState[voice_client[p]] = "disconnected" /\ Unused(p) /\ InFlight = 0)
            => players # p /\ player_task[p] \notin Alive

\* C6 (as claimed), as the final result of a run with no further command:
\* when nothing but a command can happen any more, no registered unused
\* Player is left with its voice client connected.
UnusedClientReleased ==
    ~ENABLED Progress =>
        \A p \in Players : (players = p /\ Unused(p)) => ~IsConnected(voice_client[p])

\* C7 (as claimed): a registered Player has a play command in progress or a
\* play command that succeeded (a track was pushed to it).
PlayerOnlyAfterSuccess ==
    players # 0 => resolving[players] > 0 \/ \E t \in Tracks : tplayer[t] = players

\* C8: a queue_entry call that ends without building a track (the resolver
\* raised) changes neither the queue, nor current, nor any idle task.
ResolveFailureChangesNothing ==
    [][\A p \in Players :
          (resolving'[p] < resolving[p] /\ nTracks' = nTracks)
              => queue' = queue /\ current' = current /\ auto_disconnect_task' = auto_disconnect_task]_vars

\* C8 witness: a registered Player, no track ever built, no handler in
\* flight: its only queue_entry call failed, and no idle task was created.
ResolveFailed ==
    /\ players # 0
    /\ nTracks = 0
    /\ InFlightPlays = 0
    /\ auto_disconnect_task[players] = "none"
    /\ queue[players] = <<>>

\* C9 (as claimed): skip() issued while the Player's current track is on
\* the sink, playing or paused, stops the sink and leaves that track's
\* completion callback outstanding.
SkipStopsCurrent ==
    \A p \in Players :
        (players = p /\ current[p] # 0 /\ sink[voice_client[p]] \in
            {[st |-> "playing", t |-> current[p]], [st |-> "paused", t |-> current[p]]})
        => ENABLED (Skip /\ sink'[voice_client[p]].st = "idle" /\ current[p] \in cb')

\* C10 (as claimed), the part a finite run refutes: every pushed track gets
\* to the sink, so when disconnect cancels a driver that holds a track, no
\* other track is waiting behind it in the queue.
NoTrackStranded ==
    \A p \in Players : (player_task[p] = "cancelled" /\ current[p] # 0) => queue[p] = <<>>

\* C10 (amended): a track is handed to the sink at most once, its callback
\* fires at most once and only after it was handed to the sink, and a track
\* that is still queued or was discarded by stop has not been handed to it.
CallbackAtMostOnce ==
    \A t \in Tracks : /\ Started(t) <= 1
                      /\ fired[t] <= Started(t)
                      /\ t \in dropped => Started(t) = 0
                      /\ (tplayer[t] # 0 /\ t \in Range(queue[tplayer[t]])) => Started(t) = 0

\* C10 witness: one track played and its callback fired, another pushed to
\* the same Player and left in the queue when disconnect cancelled the driver.
PlayedAndStranded ==
    \E t, u \in Tracks : /\ tplayer[t] # 0 /\ tplayer[u] = tplayer[t]
                         /\ fired[t] = 1
                         /\ u \in Range(queue[tplayer[u]])
                         /\ player_task[tplayer[u]] = "cancelled"

\* C11: the registry holds at most one Player for the guild (none, or one
\* constructed Player); a step that finds a Player registered leaves that
\* Player or no Player registered, never another one; and the voice client
\* a Player was constructed with stays its voice client, also when get_player
\* is called for it with another voice client.
GetPlayerKeepsBinding ==
    [][/\ players' \in {0} \cup 1..nPlayers'
       /\ players # 0 => players' \in {0, players}
       /\ \A p \in Players : voice_client[p] # 0 => voice_client'[p] = voice_client[p]]_vars

\* C11 witness: play connected a second voice client and called get_player
\* with it while the first Player, bound to the first client, was registered;
\* the queue_entry call on that Player is in progress.
GetPlayerIgnoredClient ==
    /\ players = 1
    /\ voice_client[1] = 1
    /\ ctx_voice_client = 2
    /\ resolving[1] > 0

PauseResumeKeepCurrent ==
    [][\A v \in VCs :
          /\ (sink[v].st \in {"playing", "paused"} /\ sink'[v].st \in {"playing", "paused"}
                 /\ sink'[v].st # sink[v].st)
               => /\ sink'[v].t = sink[v].t
                  /\ queue' = queue /\ current' = current
                  /\ player_task' = player_task /\ play_next_event' = play_next_event
          /\ sink'[v].st = "paused"
               => /\ current'[tplayer'[sink'[v].t]] = sink'[v].t
                  /\ player_task'[tplayer'[sink'[v].t]] = "wait"]_vars

\* C13 witness: a sink is paused on the current track of the registered
\* Player with another track waiting in the queue.
PausedWithQueue ==
    \E p \in Players : /\ players = p
                       /\ current[p] # 0
                       /\ sink[voice_client[p]] = [st |-> "paused", t |-> current[p]]
                       /\ queue[p] # <<>>

\* C14: the lines of the queue command's reply for the registered Player:
\* when current is set, first one "now playing" line for current; then the
\* first min(10, queue length) queued tracks in queue order, numbered from 1,
\* and nothing else (so the "now playing" line alone when the queue is
\* empty); and the command has no step that changes queue or current.
QueueReplyListsFirstTen ==
    \A p \in Players : players = p =>
        LET L == QueueLines(p)
            n == IF Len(queue[p]) < 10 THEN Len(queue[p]) ELSE 10
            c == IF current[p] # 0 THEN 1 ELSE 0
        IN /\ Len(L) = c + n
           /\ c = 1 => L[1] = <<"now", current[p]>>
           /\ \A i \in 1..n : L[c + i] = <<i, queue[p][i]>>
           /\ ~ENABLED (ShowQueue /\ (queue' # queue \/ current' # current))

\* C14 witness: the queue command on a Player with a current track and more
\* than ten queued tracks.
QueueLongerThanShown ==
    \E p \in Players : players = p /\ current[p] # 0 /\ Len(queue[p]) > 10

\* C15: the driver serialises playback. Every track a Player handed to the
\* sink before its latest one has had its callback fire; while the driver
\* prepares a track (it is between Queue.get and voice_client.play) the
\* advance signal is clear, no callback of the Player is outstanding and no
\* track of the Player is on a sink; and a signal that is set while the driver
\* waits is the signal of the track it waits for.
DriverSerialises ==
    \A p \in Players :
        /\ \A i \in 1..Len(playLog[p]) : i < Len(playLog[p]) => fired[playLog[p][i]] = 1
        /\ player_task[p] = "download" =>
               /\ ~play_next_event[p]
               /\ \A t \in cb : tplayer[t] # p
               /\ NoStream(p)
        /\ (player_task[p] = "wait" /\ play_next_event[p]) => fired[current[p]] = 1

\* C15 witness: a Player has handed its second track to the sink and the
\* driver is waiting for it with the first track's signal consumed.
SecondTrackOnSink ==
    \E p \in Players : /\ Len(playLog[p]) = 2
                       /\ player_task[p] = "wait"
                       /\ ~play_next_event[p]
                       /\ sink[voice_client[p]] = [st |-> "playing", t |-> playLog[p][2]]

\* C16 (as claimed): current is set only while the sink is consuming that
\* track: whenever a Player's current is not None, its voice client's sink is
\* playing or paused on it.
CurrentOnlyWhileOnSink ==
    \A p \in Players :
        current[p] # 0 =>
            /\ sink[voice_client[p]].st \in {"playing", "paused"}
            /\ sink[voice_client[p]].t = current[p]

\* C17 (as claimed): the driver task of the registered Player is alive.
DriverAliveWhileRegistered ==
    players # 0 => player_task[players] \in Alive

\* C18: no idle task of a Player other than the one auto_disconnect_task
\* refers to is ever left not done (a re-arm cancels the one it replaces);
\* a step that ends or replaces an idle task suspended in one of its sleeps
\* leaves every voice client as it was; and a voice client starts
\* disconnecting only through a leave or through the latest idle task of its
\* Player passing its guards.
OnlyLatestIdleTaskFires ==
    [][/\ \A p \in Players :
             /\ orphans'[p] = {}
             /\ (/\ auto_disconnect_task[p] \in {"sleep", "settle"}
                 /\ auto_disconnect_task'[p] \in {"sleep", "done"}
                 /\ auto_disconnect_task'[p] # auto_disconnect_task[p]) => vcState' = vcState
       /\ \A v \in VCs :
             (vcState[v] = "connected" /\ vcState'[v] = "disconnecting")
                 => \E p \in Players :
                       /\ voice_client[p] = v
                       /\ \/ leaving'[p] > leaving[p]
                          \/ /\ auto_disconnect_task[p] \in {"sleep", "settle"}
                             /\ auto_disconnect_task'[p] = "disc"]_vars

\* C18 witness: the voice client of the registered Player is disconnecting
\* with no leave in progress, so an idle task began the disconnect and was
\* awaiting it; the Player's idle task is a fresh one: a re-arm has cancelled
\* and replaced the task that was pending.
IdleTaskReplaced ==
    \E p \in Players : /\ players = p
                       /\ vcState[voice_client[p]] = "disconnecting"
                       /\ leaving[p] = 0
                       /\ auto_disconnect_task[p] = "sleep"

\* C19: what the idle task of a Player does when it wakes. From the timeout:
\* with the voice client not connected it ends and changes nothing; with the
\* client connected and the bot alone it starts the disconnect in that very
\* step; with the client connected and the bot not alone it goes to the
\* settling sleep and changes nothing. From the settling sleep: it calls
\* disconnect exactly when, at that moment, nothing is playing, the queue is
\* empty and current is None; otherwise it ends and changes nothing.
IdleTaskGuards ==
    \A p \in Players :
        LET v == voice_client[p]
            quiet == sink[v].st # "playing" /\ queue[p] = <<>> /\ current[p] = 0
            off == auto_disconnect_task'[p] = "disc" /\ vcState'[v] = "disconnecting"
            same == vcState' = vcState /\ sink' = sink /\ cb' = cb
        IN /\ (auto_disconnect_task[p] = "sleep" /\ vcState[v] # "connected") =>
                  /\ ENABLED IdleFire(p, "latest", TRUE)
                  /\ ~ENABLED (/\ \E alone \in BOOLEAN : IdleFire(p, "latest", alone)
                               /\ ~(auto_disconnect_task'[p] = "done" /\ same))
           /\ (auto_disconnect_task[p] = "sleep" /\ vcState[v] = "connected") =>
                  /\ ENABLED (IdleFire(p, "latest", TRUE) /\ off)
                  /\ ~ENABLED (IdleFire(p, "latest", TRUE) /\ ~off)
                  /\ ENABLED IdleFire(p, "latest", FALSE)
                  /\ ~ENABLED (/\ IdleFire(p, "latest", FALSE)
                               /\ ~(auto_disconnect_task'[p] = "settle" /\ same))
           /\ (auto_disconnect_task[p] = "settle" /\ quiet) =>
                  /\ ENABLED IdleSettle(p, "latest")
                  /\ ~ENABLED (/\ IdleSettle(p, "latest")
                               /\ ~(/\ auto_disconnect_task'[p] = "disc"
                                    /\ IF vcState[v] = "connected" THEN vcState'[v] = "disconnecting"
                                                                   ELSE same))
           /\ (auto_disconnect_task[p] = "settle" /\ ~quiet) =>
                  /\ ENABLED IdleSettle(p, "latest")
                  /\ ~ENABLED (/\ IdleSettle(p, "latest")
                               /\ ~(auto_disconnect_task'[p] = "done" /\ same))

\* C19 witness: an idle task is in its settling sleep while nothing is playing
\* and the queue is empty, but the Player holds a current track.
IdleSettlingWithCurrent ==
    \E p \in Players : /\ auto_disconnect_task[p] = "settle"
                       /\ vcState[voice_client[p]] = "connected"
                       /\ sink[voice_client[p]].st = "idle"
                       /\ queue[p] = <<>>
                       /\ current[p] # 0

\* C20: once the callback of a track whose stream ended on an error has run,
\* with the driver waiting for that track, the advance signal is set and the
\* step the driver takes is the one it takes after any completion: current
\* becomes the next queued track (None if there is none), the idle timer is
\* re-armed and the driver prepares that track (or blocks in Queue.get).
SinkErrorStillAdvances ==
    \A p \in Players : \A t \in sinkErr :
        (tplayer[t] = p /\ t \notin cb /\ player_task[p] = "wait" /\ current[p] = t) =>
            LET advanced ==
                    /\ auto_disconnect_task'[p] = "sleep"
                    /\ current'[p] = (IF queue[p] = <<>> THEN 0 ELSE Head(queue[p]))
                    /\ player_task'[p] = (IF queue[p] = <<>> THEN "get" ELSE "download")
            IN /\ play_next_event[p]
               /\ ENABLED (DriverAdvance(p) /\ advanced)
               /\ ~ENABLED (DriverAdvance(p) /\ ~advanced)

\* C20 witness: the stream of the current track ended on an error, its
\* callback has run, the driver has not resumed yet and a track is queued.
ErrorCallbackRan ==
    \E p \in Players : /\ current[p] \in sinkErr
                       /\ current[p] \notin cb
                       /\ fired[current[p]] = 1
                       /\ player_task[p] = "wait"
                       /\ queue[p] # <<>>

====
